---------------------------- MODULE Spec2Model ----------------------------
(***************************************************************************)
(* Remote shell for Mist devices (python/remote_shell/remote_shell.py).    *)
(*                                                                         *)
(* MistSocket.start opens a WebSocket, sends one resize frame, starts the  *)
(* inbound thread (_ws_in) and hands the controlling thread to the         *)
(* keyboard listener, which calls _ws_out once per key release.            *)
(*                                                                         *)
(* A Python str is modelled as the sequence of its code points, a bytes    *)
(* value as the sequence of its bytes, so that "\00" + k, map(ord, ...),   *)
(* decode('utf-8') and re.sub are computed, not assumed.                   *)
(*                                                                         *)
(* The websocket-client transport and the sshkeyboard listener are the     *)
(* environment: every outcome their calls can have at a call site of the   *)
(* program is a nondeterministic choice at the action of that call site.   *)
(*                                                                         *)
(* The module's start() (provisioning, then the session) is SpecRun; the   *)
(* stream example (python/python.py: on_open, on_message, on_close) keeps  *)
(* its state in the variable stream and is SpecStream.                     *)
(***************************************************************************)
EXTENDS Integers, Sequences, FiniteSets

(***************************************************************************)
(* Bounds of the model.                                                    *)
(***************************************************************************)
\* key events delivered in one session (session specification)
MaxKeys == 2
\* key events delivered in one session (key table specification)
MaxKeysWide == 1
\* key events delivered in one session (inbound specification)
MaxKeysNarrow == 1
\* receive calls that return data (session and key table specifications)
MaxRecv == 1
\* receive calls that return data (inbound specification)
MaxRecvWide == 2
\* key callbacks the listener's thread pool runs at the same time
NumHandlers == 2
\* messages handed to on_message in one run of python.py
MaxMsgs == 2

Handlers == 1..NumHandlers

(***************************************************************************)
(* Python strings used by _ws_out, as code point sequences.                *)
(***************************************************************************)
K_enter     == <<101, 110, 116, 101, 114>>
K_space     == <<115, 112, 97, 99, 101>>
K_tab       == <<116, 97, 98>>
K_up        == <<117, 112>>
K_right     == <<114, 105, 103, 104, 116>>
K_down      == <<100, 111, 119, 110>>
K_left      == <<108, 101, 102, 116>>
K_backspace == <<98, 97, 99, 107, 115, 112, 97, 99, 101>>
K_tilde     == <<126>>
\* the empty string: a falsy key
K_empty     == <<>>
\* literal characters: 'h', 'i', U+00E9, U+20AC
K_h         == <<104>>
K_i         == <<105>>
K_eacute    == <<233>>
K_euro      == <<8364>>

NamedKeys == {K_enter, K_space, K_tab, K_up, K_right, K_down, K_left, K_backspace}

\* key events of the session specification
CoreKeys == {K_h, K_enter, K_tilde, K_empty}
\* key events of the key table specification
AllKeys  == NamedKeys \cup {K_tilde, K_empty, K_h, K_i, K_eacute, K_euro}
\* key events of the inbound specification
FewKeys  == {K_h, K_tilde}

(***************************************************************************)
(* Inbound data: what one ws.recv() call can return.                       *)
(***************************************************************************)
\* b"\x00hello\x00world"
HelloWorld == <<0, 104, 101, 108, 108, 111, 0, 119, 111, 114, 108, 100>>

\* empty, ASCII with and without NULs, a two-byte character (U+00E9), and
\* malformed ones: a truncated sequence, a stray continuation byte; and the
\* sample
WideChunks == {<<>>, <<104>>, <<0, 104>>, <<104, 0, 105>>, <<195, 169>>,
               <<195>>, <<169>>, HelloWorld}
CoreChunks == {<<0, 104>>, <<195>>}

\* shutil.get_terminal_size() results
TermSizes == {[columns |-> 80, lines |-> 24], [columns |-> 120, lines |-> 40]}

VARIABLES
    startPc,        \* where MistSocket.start is
    connected,      \* self.ws.connected
    sock,           \* self.ws.sock: "none" | "open" | "shut" | "closed"
    wire,           \* frames the program sent on the connection, in order
    inPc,           \* where the inbound thread (_ws_in) is
    inExit,         \* why the inbound thread left its loop
    received,       \* what the ws.recv() calls returned, in order
    display,        \* the text written to sys.stdout
    listening,      \* the keyboard listener has not been told to stop
    keys,           \* key events delivered to _ws_out: the key, how the
                    \* call ended (res), whether the inbound thread had
                    \* already seen a receive error (late) and whether no
                    \* other callback was running (solo)
    hpc,            \* where each running key callback is
    hidx,           \* the key event each running key callback handles
    calls,          \* calls seen by the socket and the listener
    probes,         \* what the shutil.get_terminal_size() calls returned
    wsData,         \* WS_DATA of the module's start(): what get_shell_info
                    \* returned ("unset" before the call)
    stream          \* python.py: its position, site id, printed lines and
                    \* the messages handed to ws.send

vars == <<startPc, connected, sock, wire, inPc, inExit, received, display,
          listening, keys, hpc, hidx, calls, probes, wsData, stream>>

startVars == <<startPc, probes, wsData>>
connVars  == <<connected, sock>>
inVars    == <<inPc, inExit, received, display>>
keyVars   == <<keys, hpc, hidx>>


(***************************************************************************)
(* Pure parts of _ws_out, _ws_in and _resize.                              *)
(***************************************************************************)

\* MapKey with the arrow keys' own NUL dropped
MapKeyPlainArrows(key) ==
    IF key = K_enter THEN <<10>>
    ELSE IF key = K_space THEN <<32>>
    ELSE IF key = K_tab THEN <<9>>
    ELSE IF key = K_up THEN <<27, 91, 65>>
    ELSE IF key = K_right THEN <<27, 91, 67>>
    ELSE IF key = K_down THEN <<27, 91, 66>>
    ELSE IF key = K_left THEN <<27, 91, 68>>
    ELSE IF key = K_backspace THEN <<8>>
    ELSE key

\* the if/elif chain of _ws_out for a key that is not the exit key: k
MapKey(key) ==
    IF key = K_enter THEN <<10>>
    ELSE IF key = K_space THEN <<32>>
    ELSE IF key = K_tab THEN <<9>>
    ELSE IF key = K_up THEN <<0, 27, 91, 65>>
    ELSE IF key = K_right THEN <<0, 27, 91, 67>>
    ELSE IF key = K_down THEN <<0, 27, 91, 66>>
    ELSE IF key = K_left THEN <<0, 27, 91, 68>>
    ELSE IF key = K_backspace THEN <<8>>
    ELSE key

\* data = f"\00{k}"
KeyData(k) == <<0>> \o k

\* bytearray.extend(map(ord, data)) raises ValueError unless every ord is a byte
OrdOk(data) == \A i \in 1..Len(data) : data[i] \in 0..255

\* the bytearray built from data: one unit per character, its ord
DataBytes(data) == [i \in 1..Len(data) |-> data[i]]

\* the frame ws.send_binary(data_byte) puts on the connection for key event n
KeyFrame(key, n) ==
    [op |-> "binary", payload |-> DataBytes(KeyData(MapKey(key))), ev |-> n]

\* _pty_size returning (cols, rows)
PtySizeSwapped(ts) == <<ts.columns, ts.lines>>

\* _pty_size: cols, rows = shutil.get_terminal_size(); return rows, cols
PtySize(ts) == <<ts.lines, ts.columns>>

\* json.dumps({'resize': {'width': cols, 'height': rows}}), sent as text
ResizeFrame(rows, cols) ==
    [op |-> "text", payload |-> [resize |-> [width |-> cols, height |-> rows]],
     ev |-> 0]

IsCont(b) == b \in 128..191

\* bytes.decode('utf-8') (strict): [ok |-> decoded?, text |-> code points]
RECURSIVE Utf8Decode(_)
Utf8Decode(b) ==
    IF b = <<>> THEN [ok |-> TRUE, text |-> <<>>]
    ELSE
      LET b1 == b[1]
          n  == IF b1 < 128 THEN 1
                ELSE IF b1 \in 194..223 THEN 2
                ELSE IF b1 \in 224..239 THEN 3
                ELSE IF b1 \in 240..244 THEN 4
                ELSE 0
          wellFormed ==
              /\ n > 0
              /\ Len(b) >= n
              /\ \A i \in 2..n : IsCont(b[i])
              /\ (b1 = 224 => b[2] >= 160)
              /\ (b1 = 237 => b[2] <= 159)
              /\ (b1 = 240 => b[2] >= 144)
              /\ (b1 = 244 => b[2] <= 143)
          cp == IF n = 1 THEN b1
                ELSE IF n = 2 THEN (b1 - 192) * 64 + (b[2] - 128)
                ELSE IF n = 3 THEN (b1 - 224) * 4096 + (b[2] - 128) * 64
                                    + (b[3] - 128)
                ELSE (b1 - 240) * 262144 + (b[2] - 128) * 4096
                       + (b[3] - 128) * 64 + (b[4] - 128)
      IN IF ~wellFormed THEN [ok |-> FALSE, text |-> <<>>]
         ELSE LET rest == Utf8Decode(SubSeq(b, n + 1, Len(b)))
              IN [ok |-> rest.ok,
                  text |-> IF rest.ok THEN <<cp>> \o rest.text ELSE <<>>]

\* re.sub('[\x00]', '', line)
NotNul(c) == c # 0
StripNul(line) == SelectSeq(line, NotNul)

\* data.decode('utf-8') on what recv returned: a str has no decode
Decodes(r) == r.kind = "bytes" /\ Utf8Decode(r.data).ok

(***************************************************************************)
(* python.py, the stream example: the str values handed to on_message and  *)
(* what json.loads, dict.get and json.dumps make of them.  A str is its    *)
(* text; a parsed value is a record with its Python type in kind.          *)
(***************************************************************************)
M_hello    == "hello"
M_five     == "5"
M_null     == "null"
M_nodata   == "{\"event\": \"data\"}"
M_dataint  == "{\"event\": \"data\", \"data\": 5}"
M_databad  == "{\"event\": \"data\", \"data\": \"hello\"}"
M_noevent  == "{\"data\": \"5\"}"
M_stats    == "{\"event\": \"data\", \"channel\": \"/sites/s1/stats/devices\", \"data\": \"{\\\"mac\\\": \\\"aa\\\"}\"}"
D_mac      == "{\"mac\": \"aa\"}"

Messages == {M_hello, M_five, M_null, M_nodata, M_dataint, M_databad,
             M_noevent, M_stats}

\* MIST_SITE_ID: '' unless the environment file sets it
SiteIds == {"", "s1"}

PyStr(t)  == [kind |-> "str", text |-> t]
PyInt(t)  == [kind |-> "int", text |-> t]
PyNone    == [kind |-> "None", text |-> "None"]
PyDict(f) == [kind |-> "dict", fields |-> f]

\* the JSON value a text stands for; ok is FALSE when the text is no JSON
JsonValue(text) ==
    CASE text = M_five    -> [ok |-> TRUE, value |-> PyInt("5")]
      [] text = M_null    -> [ok |-> TRUE, value |-> PyNone]
      [] text = M_nodata  -> [ok |-> TRUE, value |-> PyDict([event |-> PyStr("data")])]
      [] text = M_dataint -> [ok |-> TRUE, value |->
                                PyDict([event |-> PyStr("data"), data |-> PyInt("5")])]
      [] text = M_databad -> [ok |-> TRUE, value |->
                                PyDict([event |-> PyStr("data"), data |-> PyStr(M_hello)])]
      [] text = M_noevent -> [ok |-> TRUE, value |-> PyDict([data |-> PyStr(M_five)])]
      [] text = M_stats   -> [ok |-> TRUE, value |->
                                PyDict([event   |-> PyStr("data"),
                                        channel |-> PyStr("/sites/s1/stats/devices"),
                                        data    |-> PyStr(D_mac)])]
      [] text = D_mac     -> [ok |-> TRUE, value |-> PyDict([mac |-> PyStr("aa")])]
      [] OTHER            -> [ok |-> FALSE]

\* json.loads(x): TypeError unless x is a str, JSONDecodeError unless its
\* text is JSON
JsonLoads(x) ==
    IF x.kind # "str" THEN [ok |-> FALSE, exc |-> "TypeError"]
    ELSE IF ~JsonValue(x.text).ok THEN [ok |-> FALSE, exc |-> "JSONDecodeError"]
    ELSE [ok |-> TRUE, value |-> JsonValue(x.text).value]

\* v.get(name, default): AttributeError unless v is a dict
DictGet(v, name, default) ==
    IF v.kind # "dict" THEN [ok |-> FALSE, exc |-> "AttributeError"]
    ELSE IF name \in DOMAIN v.fields THEN [ok |-> TRUE, value |-> v.fields[name]]
    ELSE [ok |-> TRUE, value |-> default]

\* json.dumps(v, indent=2) of a parsed value
JsonDumps(v) ==
    CASE v.kind = "int"  -> v.text
      [] v.kind = "None" -> "null"
      [] v.kind = "dict" /\ DOMAIN v.fields = {"mac"} /\ v.fields.mac.text = "aa" ->
             "{\n  \"mac\": \"aa\"\n}"

\* one printed line: what built it and the text it shows
Line(label, text) == [label |-> label, text |-> text]

\* TryBlock with the two prints of event and channel before the data parse
TryBlockPrintsFirst(message) ==
    LET message_json == JsonLoads(PyStr(message))
        data         == DictGet(message_json.value, "data", PyDict(<<>>))
        data_json    == JsonLoads(data.value)
        event        == DictGet(message_json.value, "event", PyNone).value
        channel      == DictGet(message_json.value, "channel", PyNone).value
        first        == <<Line("event", event.text), Line("channel", channel.text)>>
    IN IF ~message_json.ok THEN [ok |-> FALSE, exc |-> message_json.exc, lines |-> <<>>]
       ELSE IF ~data.ok THEN [ok |-> FALSE, exc |-> data.exc, lines |-> <<>>]
       ELSE IF ~data_json.ok THEN [ok |-> FALSE, exc |-> data_json.exc, lines |-> first]
       ELSE [ok |-> TRUE, exc |-> "none",
             lines |-> first \o <<Line("data:", ""), Line("dump", JsonDumps(data_json.value))>>]

\* the lines of on_message's try block for a message, after the header
TryBlock(message) ==
    LET message_json == JsonLoads(PyStr(message))
        data         == DictGet(message_json.value, "data", PyDict(<<>>))
        data_json    == JsonLoads(data.value)
        event        == DictGet(message_json.value, "event", PyNone).value
        channel      == DictGet(message_json.value, "channel", PyNone).value
    IN IF ~message_json.ok THEN [ok |-> FALSE, exc |-> message_json.exc, lines |-> <<>>]
       ELSE IF ~data.ok THEN [ok |-> FALSE, exc |-> data.exc, lines |-> <<>>]
       ELSE IF ~data_json.ok THEN [ok |-> FALSE, exc |-> data_json.exc, lines |-> <<>>]
       ELSE [ok |-> TRUE, exc |-> "none",
             lines |-> <<Line("event", event.text), Line("channel", channel.text),
                         Line("data:", ""), Line("dump", JsonDumps(data_json.value))>>]

\* except: a bare except clause catches every exception
Caught(exc) == TRUE

\* the subscribe message of on_open for a site id
Subscribe(site) == [subscribe |-> <<"/sites/", site, "/stats/devices">>]

StreamInit == [pc |-> "load", site |-> "", sent |-> <<>>, printed |-> <<>>,
               raised |-> FALSE]


(***************************************************************************)
(* Initial state: a MistSocket just constructed (__init__: self.ws = None) *)
(***************************************************************************)
Init ==
    /\ startPc = "create"
    /\ connected = FALSE
    /\ sock = "none"
    /\ wire = <<>>
    /\ inPc = "unstarted"
    /\ inExit = "none"
    /\ received = <<>>
    /\ display = <<>>
    /\ listening = FALSE
    /\ keys = <<>>
    /\ hpc = [h \in Handlers |-> "idle"]
    /\ hidx = [h \in Handlers |-> 0]
    /\ calls = [shutdown |-> 0, close |-> 0, stop |-> 0]
    /\ probes = <<>>
    /\ wsData = "url"
    /\ stream = StreamInit

(***************************************************************************)
(* MistSocket.start                                                        *)
(***************************************************************************)

\* ConnectOk with start going on without the call of _resize
ConnectOkNoResize ==
    /\ startPc = "create"
    /\ startPc' = "wait"
    /\ connected' = TRUE
    /\ sock' = "open"
    /\ UNCHANGED <<wire, inVars, listening, keyVars, calls, probes, wsData, stream>>

\* self.ws = websocket.create_connection(self.uri): a connected socket
ConnectOk ==
    /\ startPc = "create"
    /\ startPc' = "resize"
    /\ connected' = TRUE
    /\ sock' = "open"
    /\ UNCHANGED <<wire, inVars, listening, keyVars, calls, probes, wsData, stream>>

\* ConnectFail with the exception swallowed and start going on
ConnectFailSwallowed ==
    /\ startPc = "create"
    /\ startPc' = "resize"
    /\ UNCHANGED <<connVars, wire, inVars, listening, keyVars, calls, probes, wsData, stream>>

\* create_connection raises: start ends with the exception
ConnectFail ==
    /\ startPc = "create"
    /\ startPc' = "raised"
    /\ UNCHANGED <<connVars, wire, inVars, listening, keyVars, calls, probes, wsData, stream>>

\* self._resize(): probe the terminal, send the resize frame
Resize ==
    /\ startPc = "resize"
    /\ \E ts \in TermSizes :
         LET size == PtySize(ts)
         IN /\ probes' = Append(probes, ts)
            /\ wire' = Append(wire, ResizeFrame(size[1], size[2]))
    /\ startPc' = "wait"
    /\ UNCHANGED <<connVars, inVars, listening, keyVars, calls, wsData, stream>>

\* self.ws.send raises in _resize: start ends with the exception
ResizeFail ==
    /\ startPc = "resize"
    /\ \E ts \in TermSizes : probes' = Append(probes, ts)
    /\ startPc' = "raised"
    /\ UNCHANGED <<connVars, wire, inVars, listening, keyVars, calls, wsData, stream>>

\* while not self.ws.connected: time.sleep(1)
WaitConnected ==
    /\ startPc = "wait"
    /\ startPc' = IF connected THEN "spawn" ELSE "wait"
    /\ UNCHANGED <<connVars, wire, inVars, listening, keyVars, calls, probes, wsData, stream>>

\* thread_in = threading.Thread(target=self._ws_in); thread_in.start()
SpawnIn ==
    /\ startPc = "spawn"
    /\ startPc' = "enter"
    /\ inPc' = "test"
    /\ UNCHANGED <<connVars, wire, inExit, received, display, listening,
                   keyVars, calls, probes, wsData, stream>>

\* listen_keyboard(on_release=self._ws_out, ...) starts listening
ListenKeyboard ==
    /\ startPc = "enter"
    /\ startPc' = "listen"
    /\ listening' = TRUE
    /\ UNCHANGED <<connVars, wire, inVars, keyVars, calls, probes, wsData, stream>>

\* listen_keyboard returns once told to stop and its callbacks are done
ListenReturn ==
    /\ startPc = "listen"
    /\ ~listening
    /\ \A h \in Handlers : hpc[h] = "idle"
    /\ startPc' = "returned"
    /\ UNCHANGED <<connVars, wire, inVars, listening, keyVars, calls, probes, wsData, stream>>

\* the listener's own stop key (until, not passed by start: its default)
UntilKey ==
    /\ startPc = "listen"
    /\ listening
    /\ listening' = FALSE
    /\ UNCHANGED <<startVars, stream, connVars, wire, inVars, keyVars, calls>>


(***************************************************************************)
(* MistSocket._ws_in, the inbound thread                                   *)
(***************************************************************************)

RecvFailed == inExit \in {"recv_lost", "recv_error"}

\* WsInTest with `while True` for the loop's test of self.ws.connected
WsInTestAlways ==
    /\ inPc = "test"
    /\ inPc' = IF sock = "none" THEN "test" ELSE "recv"
    /\ inExit' = inExit
    /\ UNCHANGED <<startVars, stream, connVars, wire, received, display, listening,
                   keyVars, calls>>

\* while self.ws.connected: if self.ws.sock: (then recv is called)
WsInTest ==
    /\ inPc = "test"
    /\ IF ~connected
         THEN inPc' = "exited" /\ inExit' = "not_connected"
         ELSE /\ inPc' = IF sock = "none" THEN "test" ELSE "recv"
              /\ inExit' = inExit
    /\ UNCHANGED <<startVars, stream, connVars, wire, received, display, listening,
                   keyVars, calls>>

\* Shown without the re.sub: the NUL characters reach the display
ShownKeepsNul(r) ==
    IF r.data = <<>> THEN
        /\ display' = display
        /\ inPc' = "test"
        /\ inExit' = inExit
    ELSE IF Decodes(r) THEN
        /\ display' = display \o Utf8Decode(r.data).text
        /\ inPc' = "test"
        /\ inExit' = inExit
    ELSE
        /\ display' = display
        /\ inPc' = "excepted"
        /\ inExit' = "decode"

\* the body of the try for what recv returned: display it, or leave the loop
Shown(r) ==
    IF r.data = <<>> THEN
        \* if data: is false
        /\ display' = display
        /\ inPc' = "test"
        /\ inExit' = inExit
    ELSE IF Decodes(r) THEN
        \* line = data.decode('utf-8'); output = re.sub(...); sys.stdout.write
        /\ display' = display \o StripNul(Utf8Decode(r.data).text)
        /\ inPc' = "test"
        /\ inExit' = inExit
    ELSE
        \* data.decode raises; except: print(...); return
        /\ display' = display
        /\ inPc' = "excepted"
        /\ inExit' = "decode"

\* data = self.ws.recv() returns the payload of a binary frame
RecvData(Chunks, maxRecv) ==
    /\ inPc = "recv"
    /\ sock = "open"
    /\ Len(received) < maxRecv
    /\ \E c \in Chunks :
         LET r == [kind |-> "bytes", data |-> c]
         IN /\ received' = Append(received, r)
            /\ Shown(r)
    /\ UNCHANGED <<startVars, stream, connVars, wire, listening, keyVars, calls>>

\* data = self.ws.recv() returns the payload of a text frame, a str
RecvText(maxRecv) ==
    /\ inPc = "recv"
    /\ sock = "open"
    /\ Len(received) < maxRecv
    /\ LET r == [kind |-> "str", data |-> <<104>>]
       IN /\ received' = Append(received, r)
          /\ Shown(r)
    /\ UNCHANGED <<startVars, stream, connVars, wire, listening, keyVars, calls>>

\* recv got the peer's close frame: the transport marks the connection
\* closed and recv returns an empty str
RecvClose ==
    /\ inPc = "recv"
    /\ sock = "open"
    /\ connected' = FALSE
    /\ LET r == [kind |-> "str", data |-> <<>>]
       IN /\ received' = Append(received, r)
          /\ Shown(r)
    /\ UNCHANGED <<startVars, stream, sock, wire, listening, keyVars, calls>>

\* recv raises because the connection is lost: the transport drops its
\* socket and marks the connection closed; except: print(...); return
RecvLost ==
    /\ inPc = "recv"
    /\ sock # "none"
    /\ sock' = "none"
    /\ connected' = FALSE
    /\ inPc' = "excepted"
    /\ inExit' = "recv_lost"
    /\ UNCHANGED <<startVars, stream, wire, received, display, listening, keyVars,
                   calls>>

\* RecvError with the except clause going on with the loop
RecvErrorIgnored ==
    /\ inPc = "recv"
    /\ sock # "none"
    /\ inPc' = "test"
    /\ inExit' = "recv_error"
    /\ UNCHANGED <<startVars, stream, connVars, wire, received, display, listening,
                   keyVars, calls>>

\* recv raises anything else (a timeout, a protocol error, an OS error on
\* a closed descriptor): the transport's state stays; except: print; return
RecvError ==
    /\ inPc = "recv"
    /\ sock # "none"
    /\ inPc' = "excepted"
    /\ inExit' = "recv_error"
    /\ UNCHANGED <<startVars, stream, connVars, wire, received, display, listening,
                   keyVars, calls>>

(***************************************************************************)
(* MistSocket._ws_out, the key callback                                    *)
(***************************************************************************)

KeyOf(h) == keys[hidx[h]].key

\* the listener calls on_release(key) on a free thread of its pool
Dispatch(Keys, maxKeys) ==
    /\ startPc = "listen"
    /\ listening
    /\ Len(keys) < maxKeys
    /\ \E h \in Handlers :
         /\ hpc[h] = "idle"
         /\ \A g \in Handlers : hpc[g] = "idle" => h <= g
         /\ hpc' = [hpc EXCEPT ![h] = "test"]
         /\ hidx' = [hidx EXCEPT ![h] = Len(keys) + 1]
    /\ \E k \in Keys :
         keys' = Append(keys, [key |-> k, res |-> "pending",
                               late |-> RecvFailed,
                               solo |-> \A g \in Handlers : hpc[g] = "idle"])
    /\ UNCHANGED <<startVars, stream, connVars, wire, inVars, listening, calls>>

\* _ws_out returns
Return(h, res) ==
    /\ keys' = [keys EXCEPT ![hidx[h]].res = res]
    /\ hpc' = [hpc EXCEPT ![h] = "idle"]
    /\ hidx' = [hidx EXCEPT ![h] = 0]

\* _ws_out ends with an uncaught exception: the listener reports it and
\* either goes on listening or stops
Raise(h, exc) ==
    /\ Return(h, exc)
    /\ \E stop \in BOOLEAN : listening' = (listening /\ ~stop)

\* HTest without the exit branch: "~" is sent like any other character
HTestExitSent(h) ==
    /\ hpc[h] = "test"
    /\ IF ~connected THEN
           Return(h, "closed") /\ listening' = listening
       ELSE IF KeyOf(h) = K_empty THEN
           Return(h, "empty") /\ listening' = listening
       ELSE IF ~OrdOk(KeyData(MapKey(KeyOf(h)))) THEN
           Raise(h, "ValueError")
       ELSE
           /\ hpc' = [hpc EXCEPT ![h] = "send"]
           /\ UNCHANGED <<keys, hidx, listening>>
    /\ UNCHANGED <<startVars, stream, connVars, wire, inVars, calls>>

\* HTest without the `if key:` test
HTestNoKeyTest(h) ==
    /\ hpc[h] = "test"
    /\ IF ~connected THEN
           Return(h, "closed") /\ listening' = listening
       ELSE IF KeyOf(h) = K_tilde THEN
           /\ hpc' = [hpc EXCEPT ![h] = "shutdown"]
           /\ UNCHANGED <<keys, hidx, listening>>
       ELSE IF ~OrdOk(KeyData(MapKey(KeyOf(h)))) THEN
           Raise(h, "ValueError")
       ELSE
           /\ hpc' = [hpc EXCEPT ![h] = "send"]
           /\ UNCHANGED <<keys, hidx, listening>>
    /\ UNCHANGED <<startVars, stream, connVars, wire, inVars, calls>>

\* if self.ws.connected: if key: the if/elif chain, then data and data_byte
HTest(h) ==
    /\ hpc[h] = "test"
    /\ IF ~connected THEN
           Return(h, "closed") /\ listening' = listening
       ELSE IF KeyOf(h) = K_empty THEN
           Return(h, "empty") /\ listening' = listening
       ELSE IF KeyOf(h) = K_tilde THEN
           \* print('## Exit from shell pressed ##')
           /\ hpc' = [hpc EXCEPT ![h] = "shutdown"]
           /\ UNCHANGED <<keys, hidx, listening>>
       ELSE IF ~OrdOk(KeyData(MapKey(KeyOf(h)))) THEN
           Raise(h, "ValueError")
       ELSE
           /\ hpc' = [hpc EXCEPT ![h] = "send"]
           /\ UNCHANGED <<keys, hidx, listening>>
    /\ UNCHANGED <<startVars, stream, connVars, wire, inVars, calls>>

\* self.ws.send_binary(data_byte) sends the frame
HSend(h) ==
    /\ hpc[h] = "send"
    /\ sock = "open"
    /\ wire' = Append(wire, KeyFrame(KeyOf(h), hidx[h]))
    /\ Return(h, "sent")
    /\ UNCHANGED <<startVars, stream, connVars, inVars, listening, calls>>

\* self.ws.send_binary raises; except: print(...); return
HSendFail(h) ==
    /\ hpc[h] = "send"
    /\ Return(h, "send_failed")
    /\ UNCHANGED <<startVars, stream, connVars, wire, inVars, listening, calls>>

\* self.ws.sock.shutdown(2) returns
HShutdown(h) ==
    /\ hpc[h] = "shutdown"
    /\ sock \in {"open", "shut"}
    /\ sock' = "shut"
    /\ calls' = [calls EXCEPT !.shutdown = @ + 1]
    /\ hpc' = [hpc EXCEPT ![h] = "close"]
    /\ UNCHANGED <<startVars, stream, connected, wire, inVars, listening, keys, hidx>>

\* self.ws.sock.shutdown(2) raises: no socket (AttributeError), or a socket
\* already shut down or closed (OSError)
HShutdownRaise(h) ==
    /\ hpc[h] = "shutdown"
    /\ sock # "open"
    /\ calls' = IF sock = "none" THEN calls
                ELSE [calls EXCEPT !.shutdown = @ + 1]
    /\ Raise(h, IF sock = "none" THEN "AttributeError" ELSE "OSError")
    /\ UNCHANGED <<startVars, stream, connVars, wire, inVars>>

\* self.ws.sock.close() returns
HClose(h) ==
    /\ hpc[h] = "close"
    /\ sock # "none"
    /\ sock' = "closed"
    /\ calls' = [calls EXCEPT !.close = @ + 1]
    /\ hpc' = [hpc EXCEPT ![h] = "stop"]
    /\ UNCHANGED <<startVars, stream, connected, wire, inVars, listening, keys, hidx>>

\* self.ws.sock.close() raises AttributeError: no socket
HCloseRaise(h) ==
    /\ hpc[h] = "close"
    /\ sock = "none"
    /\ Raise(h, "AttributeError")
    /\ UNCHANGED <<startVars, stream, connVars, wire, inVars, calls>>

\* stop_listening(); return
HStop(h) ==
    /\ hpc[h] = "stop"
    /\ listening' = FALSE
    /\ calls' = [calls EXCEPT !.stop = @ + 1]
    /\ Return(h, "exit")
    /\ UNCHANGED <<startVars, stream, connVars, wire, inVars>>

(***************************************************************************)
(* The module's start(): provisioning, then the session                    *)
(***************************************************************************)

\* HTTP status codes of the provisioning response
StatusCodes == {200, 401, 404}

\* the state before start() has called get_shell_info
InitRun ==
    /\ startPc = "provision"
    /\ wsData = "unset"
    /\ connected = FALSE
    /\ sock = "none"
    /\ wire = <<>>
    /\ inPc = "unstarted"
    /\ inExit = "none"
    /\ received = <<>>
    /\ display = <<>>
    /\ listening = FALSE
    /\ keys = <<>>
    /\ hpc = [h \in Handlers |-> "idle"]
    /\ hidx = [h \in Handlers |-> 0]
    /\ calls = [shutdown |-> 0, close |-> 0, stop |-> 0]
    /\ probes = <<>>
    /\ stream = StreamInit

\* WS_DATA = get_shell_info(...): the body of a 200 response, else None
GetShellInfo ==
    /\ startPc = "provision"
    /\ \E status \in StatusCodes, body \in {"url", "no_url"} :
         wsData' = IF status = 200 THEN body ELSE "none"
    /\ startPc' = "provisioned"
    /\ UNCHANGED <<connVars, wire, inVars, listening, keyVars, calls, probes, stream>>

\* MakeSocket whatever get_shell_info returned
MakeSocketAnyData ==
    /\ startPc = "provisioned"
    /\ startPc' = "create"
    /\ UNCHANGED <<connVars, wire, inVars, listening, keyVars, calls, probes,
                   wsData, stream>>

\* socket = MistSocket(WS_DATA["url"]); socket.start()
MakeSocket ==
    /\ startPc = "provisioned"
    /\ wsData = "url"
    /\ startPc' = "create"
    /\ UNCHANGED <<connVars, wire, inVars, listening, keyVars, calls, probes,
                   wsData, stream>>

\* WS_DATA["url"] raises: TypeError on None, KeyError without the key
SubscriptRaise ==
    /\ startPc = "provisioned"
    /\ wsData # "url"
    /\ startPc' = "raised"
    /\ UNCHANGED <<connVars, wire, inVars, listening, keyVars, calls, probes,
                   wsData, stream>>

(***************************************************************************)
(* python.py: the callbacks of the WebSocketApp                            *)
(***************************************************************************)

\* MIST_SITE_ID = _load_env(...); ws.run_forever()
LoadEnv ==
    /\ stream.pc = "load"
    /\ \E site \in SiteIds : stream' = [stream EXCEPT !.pc = "run", !.site = site]
    /\ UNCHANGED <<startVars, connVars, wire, inVars, listening, keyVars, calls>>

\* on_open(ws)
OnOpen ==
    /\ stream.pc = "run"
    /\ stream' = [stream EXCEPT
                    !.pc = "open",
                    !.printed = Append(@, [by |-> "on_open", message |-> "",
                                           lines |-> <<Line("onopen", "")>>]),
                    !.sent = Append(@, Subscribe(stream.site))]
    /\ UNCHANGED <<startVars, connVars, wire, inVars, listening, keyVars, calls>>

\* on_message(ws, message)
OnMessage(message, maxMsgs) ==
    /\ stream.pc = "open"
    /\ Len(stream.printed) <= maxMsgs
    /\ LET try == TryBlock(message)
           out == IF try.ok THEN try.lines
                  ELSE IF Caught(try.exc) THEN try.lines \o <<Line("raw", message)>>
                  ELSE try.lines
       IN stream' = [stream EXCEPT
                       !.printed = Append(@, [by |-> "on_message", message |-> message,
                                              lines |-> <<Line("header", "")>> \o out]),
                       !.raised = @ \/ (~try.ok /\ ~Caught(try.exc))]
    /\ UNCHANGED <<startVars, connVars, wire, inVars, listening, keyVars, calls>>

\* on_close(wsapp, close_status_code, close_msg); run_forever returns
OnClose ==
    /\ stream.pc = "open"
    /\ stream' = [stream EXCEPT
                    !.pc = "closed",
                    !.printed = Append(@, [by |-> "on_close", message |-> "",
                                           lines |-> <<Line("onclose", ""),
                                                       Line("close_status_code", ""),
                                                       Line("close_msg", "")>>])]
    /\ UNCHANGED <<startVars, connVars, wire, inVars, listening, keyVars, calls>>

(***************************************************************************)
(* Specifications                                                          *)
(***************************************************************************)
StartNext ==
    \/ ConnectOk
    \/ ConnectFail
    \/ Resize
    \/ ResizeFail
    \/ WaitConnected
    \/ SpawnIn
    \/ ListenKeyboard
    \/ ListenReturn
    \/ UntilKey

InNext(Chunks, maxRecv) ==
    \/ WsInTest
    \/ RecvData(Chunks, maxRecv)
    \/ RecvText(maxRecv)
    \/ RecvClose
    \/ RecvLost
    \/ RecvError

OutNext(Keys, maxKeys) ==
    \/ Dispatch(Keys, maxKeys)
    \/ \E h \in Handlers :
         \/ HTest(h)
         \/ HSend(h)
         \/ HSendFail(h)
         \/ HShutdown(h)
         \/ HShutdownRaise(h)
         \/ HClose(h)
         \/ HCloseRaise(h)
         \/ HStop(h)

\* one session: two key events, two callbacks at a time
Next == StartNext \/ InNext(CoreChunks, MaxRecv) \/ OutNext(CoreKeys, MaxKeys)
Spec == Init /\ [][Next]_vars

\* every key of the table and the literal characters
NextKeys == StartNext \/ InNext(CoreChunks, MaxRecv) \/ OutNext(AllKeys, MaxKeysWide)
SpecKeys == Init /\ [][NextKeys]_vars

\* every inbound chunk
NextIn == StartNext \/ InNext(WideChunks, MaxRecvWide) \/ OutNext(FewKeys, MaxKeysNarrow)
SpecIn == Init /\ [][NextIn]_vars

\* the whole run of the module's start(), from the provisioning call on
RunNext ==
    \/ GetShellInfo
    \/ MakeSocket
    \/ SubscriptRaise

NextRun == RunNext \/ StartNext \/ InNext(CoreChunks, MaxRecv)
               \/ OutNext(FewKeys, MaxKeysNarrow)
SpecRun == InitRun /\ [][NextRun]_vars

\* recv returns with an error once the socket was shut down or closed
RecvUnblocks == sock # "open" /\ (RecvLost \/ RecvError)

\* a session whose inbound thread keeps running: it reaches its next
\* statement, and a recv on a socket no longer open returns
NextFair == StartNext \/ InNext(CoreChunks, MaxRecv) \/ OutNext(FewKeys, MaxKeysNarrow)
SpecFair == Init /\ [][NextFair]_vars /\ WF_vars(WsInTest) /\ WF_vars(RecvUnblocks)

\* python.py
NextStream ==
    \/ LoadEnv
    \/ OnOpen
    \/ \E message \in Messages : OnMessage(message, MaxMsgs)
    \/ OnClose
SpecStream == Init /\ [][NextStream]_vars


(***************************************************************************)
(* What the claims are stated with                                         *)
(***************************************************************************)

\* the byte sequences of the key table (spec 4.2), each after the 0x00
\* marker of a keystroke frame; a literal ASCII character is its own byte
DocumentedFrame(key) ==
    CASE key = K_enter     -> <<0, 10>>
      [] key = K_space     -> <<0, 32>>
      [] key = K_tab       -> <<0, 9>>
      [] key = K_up        -> <<0, 0, 27, 91, 65>>
      [] key = K_down      -> <<0, 0, 27, 91, 66>>
      [] key = K_right     -> <<0, 0, 27, 91, 67>>
      [] key = K_left      -> <<0, 0, 27, 91, 68>>
      [] key = K_backspace -> <<0, 8>>
      [] OTHER             -> <<0>> \o key

IsAscii(key) == \A i \in 1..Len(key) : key[i] \in 0..127

InTable(key) == key \in NamedKeys \/ (Len(key) = 1 /\ IsAscii(key))

IsBinary(f) == f.op = "binary"

\* the payloads of the binary frames sent, in order
BinaryPayloads == [i \in 1..Len(SelectSeq(wire, IsBinary)) |->
                      SelectSeq(wire, IsBinary)[i].payload]

\* the frames of the non-empty keys before the first "~" of a key sequence
RECURSIVE FramesBeforeExit(_)
FramesBeforeExit(ks) ==
    IF ks = <<>> \/ ks[1].key = K_tilde THEN <<>>
    ELSE IF ks[1].key = K_empty THEN FramesBeforeExit(Tail(ks))
    ELSE <<DocumentedFrame(ks[1].key)>> \o FramesBeforeExit(Tail(ks))

AllIdle == \A h \in Handlers : hpc[h] = "idle"

(***************************************************************************)
(* C1: the first frame sent on the connection is the resize text frame;    *)
(* no keystroke (binary) frame is sent before it, whatever key events and  *)
(* inbound messages follow.                                                *)
(***************************************************************************)
C1_ResizeFirst ==
    wire # <<>> =>
        /\ wire[1].op = "text"
        /\ \E ts \in TermSizes :
             wire[1].payload =
                 [resize |-> [width |-> ts.columns, height |-> ts.lines]]

\* a keystroke frame was sent, and an inbound message received, after it
C1_Witness ==
    /\ Len(wire) >= 2
    /\ wire[1].op = "text"
    /\ wire[2].op = "binary"
    /\ received # <<>>

C3_CloseOnce ==
    /\ calls.shutdown <= 1
    /\ calls.close <= 1
    /\ (calls.stop >= 1 => calls.shutdown = 1 /\ calls.close = 1)

Malformed(r) == r.kind = "bytes" /\ r.data # <<>> /\ ~Utf8Decode(r.data).ok

C5_MalformedSkipped ==
    (\E i \in 1..Len(received) : Malformed(received[i])) =>
        \/ inPc \in {"test", "recv"}
        \/ inExit \in {"recv_lost", "recv_error", "not_connected"}

(***************************************************************************)
(* C6: the text written to the display is, at every point, the             *)
(* concatenation in receive order of each non-empty decodable inbound      *)
(* chunk with all 0x00 characters removed and every other character        *)
(* unchanged: b"\x00hello\x00world" is displayed as "helloworld".          *)
(***************************************************************************)
RECURSIVE WithoutNul(_)
WithoutNul(text) ==
    IF text = <<>> THEN <<>>
    ELSE IF text[1] = 0 THEN WithoutNul(Tail(text))
    ELSE <<text[1]>> \o WithoutNul(Tail(text))

RECURSIVE ExpectedDisplay(_)
ExpectedDisplay(rs) ==
    IF rs = <<>> THEN <<>>
    ELSE LET r == rs[Len(rs)]
             before == ExpectedDisplay(SubSeq(rs, 1, Len(rs) - 1))
         IN IF r.kind = "bytes" /\ r.data # <<>> /\ Utf8Decode(r.data).ok
            THEN before \o WithoutNul(Utf8Decode(r.data).text)
            ELSE before

C6_DisplayIsConcatenation ==
    /\ display = ExpectedDisplay(received)
    /\ (received # <<>> /\ received[1] = [kind |-> "bytes", data |-> HelloWorld])
       => SubSeq(display, 1, 10) =
              <<104, 101, 108, 108, 111, 119, 111, 114, 108, 100>>
    /\ (received # <<>> /\ received[1] = [kind |-> "bytes", data |-> <<195, 169>>])
       => SubSeq(display, 1, 1) = <<233>>

\* b"\x00hello\x00world", then a second chunk, both displayed in order
C6_Witness ==
    /\ Len(received) = 2
    /\ received[1] = [kind |-> "bytes", data |-> HelloWorld]
    /\ received[2] = [kind |-> "bytes", data |-> <<0, 104>>]
    /\ display = <<104, 101, 108, 108, 111, 119, 111, 114, 108, 100, 104>>

(***************************************************************************)
(* C7: when a receive call fails, the inbound loop exits in that           *)
(* iteration, the key handler is not crashed by it (no call on the socket  *)
(* the failure removed), and every key event handled afterwards observes   *)
(* the connection as closed and sends no frame.                            *)
(***************************************************************************)
C7_RecvFailureSeen ==
    RecvFailed =>
        /\ inPc = "excepted"
        /\ \A e \in 1..Len(keys) :
             /\ keys[e].res # "AttributeError"
             /\ (keys[e].late /\ keys[e].key # K_empty)
                    => keys[e].res \in {"pending", "closed"}
        /\ \A h \in Handlers :
             (hidx[h] # 0 /\ keys[hidx[h]].late /\ KeyOf(h) # K_empty)
                 => hpc[h] = "test"

(***************************************************************************)
(* C8: when sending a keystroke frame fails, the session is closed: the    *)
(* keyboard listener is stopped and the connection handle released, so     *)
(* that start() returns.  Stated where nothing of the program is left to   *)
(* run: no key callback is running, the inbound thread is blocked in recv  *)
(* or gone, and start is in the listener or has returned.                  *)
(***************************************************************************)
ProgramIdle ==
    /\ AllIdle
    /\ inPc \in {"recv", "exited", "excepted"}
    /\ \/ startPc = "returned"
       \/ startPc = "listen" /\ listening

SendFailed == \E e \in 1..Len(keys) : keys[e].res = "send_failed"

C8_SendFailureCloses ==
    (SendFailed /\ ProgramIdle) =>
        /\ startPc = "returned"
        /\ sock \in {"closed", "none"}

(***************************************************************************)
(* C9: whichever loop detects a transport failure first (a receive error   *)
(* or a send error), the session reaches Closed and the teardown (closing  *)
(* the transport, stopping the keyboard listener) is performed exactly     *)
(* once.  Stated where nothing of the program is left to run.              *)
(***************************************************************************)
C9_TeardownOnce ==
    ((RecvFailed \/ SendFailed) /\ ProgramIdle) =>
        /\ startPc = "returned"
        /\ calls = [shutdown |-> 1, close |-> 1, stop |-> 1]

(***************************************************************************)
(* C10: while the keyboard listener is running, a "~" key event causes the *)
(* listener to be told to stop, also after the inbound loop has exited and *)
(* the connection is reported not connected: once _ws_out has returned     *)
(* from a "~" event the listener is no longer listening.                   *)
(***************************************************************************)
C10_ExitStopsListener ==
    \A e \in 1..Len(keys) :
        (keys[e].key = K_tilde /\ keys[e].res # "pending") => ~listening

\* C11: the resize frame is one text frame carrying
\* {"resize": {"width": cols, "height": rows}} with the probed columns and
\* rows (120 columns by 40 rows give width 120 and height 40); the terminal
\* is probed once and one resize frame is sent per session.
IsText(f) == f.op = "text"

TextFrames == SelectSeq(wire, IsText)

ResizeDone == startPc \in {"wait", "spawn", "enter", "listen", "returned"}

C11_ResizeOnce ==
    /\ Len(probes) <= 1
    /\ Len(TextFrames) <= 1
    /\ ResizeDone => Len(probes) = 1 /\ Len(TextFrames) = 1
    /\ Len(TextFrames) = 1 =>
         /\ Len(probes) = 1
         /\ TextFrames[1].payload =
              [resize |-> [width |-> probes[1].columns, height |-> probes[1].lines]]

C11_Witness ==
    /\ startPc = "returned"
    /\ probes = <<[columns |-> 120, lines |-> 40]>>
    /\ Len(wire) > 1
    /\ wire[1] = [op |-> "text", ev |-> 0,
                  payload |-> [resize |-> [width |-> 120, height |-> 40]]]

\* C12: no interleaving of the inbound loop's handling of a receive failure
\* with the key handler's handling of the exit key ends in an unhandled
\* error: the exit key's close of a socket the inbound side has already
\* released does nothing and raises nothing.
C12_NoUnhandledError ==
    \A e \in 1..Len(keys) :
        keys[e].key = K_tilde /\ inExit = "recv_lost" =>
            keys[e].res \in {"pending", "exit", "closed"}

\* C13: once the exit key has shut down the transport, the inbound loop
\* ends: with the inbound thread scheduled fairly, it leaves its loop and
\* no inbound thread is left running after the close.
TransportShut == sock \in {"shut", "closed"}

InboundDone == inPc \in {"exited", "excepted"}

C13_InboundTerminates == TransportShut ~> InboundDone

C13_Witness ==
    /\ InboundDone
    /\ RecvFailed
    /\ calls.shutdown = 1
    /\ \E e \in 1..Len(keys) : keys[e].key = K_tilde /\ keys[e].res = "exit"

\* C14: the inbound loop leaves on end of stream as on a receive error:
\* once a receive call has returned an empty result, the loop logs and
\* leaves, and does not call receive again.
EmptyResult(r) == r.data = <<>>

C14_AsClaimed ==
    (\E i \in 1..Len(received) : EmptyResult(received[i])) => inPc # "recv"

\* C14, as the code has it: a receive error, a lost connection among them,
\* ends the loop in the except clause; after the peer's close frame the
\* connection is marked closed and the loop leaves at its test; receive is
\* never called on a connection marked closed.
C14_LoopLeaves ==
    /\ RecvFailed => inPc = "excepted"
    /\ inPc = "recv" => connected
    /\ inPc = "exited" => ~connected /\ inExit = "not_connected"
    /\ (received # <<>> /\ received[Len(received)] = [kind |-> "str", data |-> <<>>]
          /\ ~connected) => inPc \in {"test", "exited"}

C14_Witness ==
    /\ Len(received) = 2
    /\ received[1] = [kind |-> "bytes", data |-> <<>>]
    /\ received[2] = [kind |-> "str", data |-> <<>>]
    /\ inPc = "exited"

\* C15: while the connection is up, every key event other than the exit key
\* gives one binary frame on the wire whose units all lie in 0..255, also
\* for a character whose code point is above 255.
FramesOf(e) == {i \in 1..Len(wire) : IsBinary(wire[i]) /\ wire[i].ev = e}

C15_OneFramePerKey ==
    \A e \in 1..Len(keys) :
        (/\ keys[e].key \notin {K_tilde, K_empty}
         /\ keys[e].res \notin {"pending", "closed", "send_failed"}) =>
            /\ keys[e].res = "sent"
            /\ Cardinality(FramesOf(e)) = 1
            /\ \A i \in FramesOf(e) :
                 \A n \in 1..Len(wire[i].payload) : wire[i].payload[n] \in 0..255

\* C16: once the session is active one context only sends: every binary
\* frame is sent by the key handler for a key event, the socket is closed
\* by the exit key's handler only, and the frames are on the wire in the
\* order of their key events.
C16_SingleSender ==
    /\ \A i \in 1..Len(wire) : IsBinary(wire[i]) => wire[i].ev \in 1..Len(keys)
    /\ (calls.shutdown > 0 \/ calls.close > 0) =>
          \E e \in 1..Len(keys) : keys[e].key = K_tilde
    /\ \A i, j \in 1..Len(wire) :
          (IsBinary(wire[i]) /\ IsBinary(wire[j]) /\ i < j) => wire[i].ev < wire[j].ev

\* C17: when the connection cannot be established the session is closed at
\* once: no resize frame is sent, the inbound thread is not started and the
\* key listener is not started.
Established == connected \/ sock # "none" \/ inExit = "recv_lost"

C17_ConnectFailureEnds ==
    ~Established =>
        /\ startPc \in {"create", "raised"}
        /\ wire = <<>>
        /\ probes = <<>>
        /\ inPc = "unstarted"
        /\ ~listening
        /\ keys = <<>>

C17_Witness == startPc = "raised" /\ ~Established /\ wire = <<>>

\* C18: when the provisioning call returns a status other than 200, so that
\* get_shell_info yields no data, the run ends before any session exists:
\* no MistSocket is created, no connection is opened, no frame is sent.
C18_NoDataNoSession ==
    wsData = "none" =>
        /\ startPc \in {"provisioned", "raised"}
        /\ ~Established
        /\ wire = <<>>
        /\ probes = <<>>
        /\ inPc = "unstarted"
        /\ ~listening
        /\ keys = <<>>

C18_Witness == wsData = "none" /\ startPc = "raised" /\ sock = "none"

\* C19: every binary frame the key handler sends starts with the byte 0x00
\* and carries at least one more byte; an empty key event sends no frame,
\* so no frame is the marker byte alone.
C19_MarkerAndPayload ==
    /\ \A i \in 1..Len(wire) :
          IsBinary(wire[i]) => Len(wire[i].payload) >= 2 /\ wire[i].payload[1] = 0
    /\ \A e \in 1..Len(keys) :
          keys[e].key = K_empty =>
             /\ keys[e].res \in {"pending", "empty", "closed"}
             /\ FramesOf(e) = {}

C19_Witness ==
    /\ Len(keys) = 2
    /\ keys[1].key = K_empty /\ keys[1].res = "empty"
    /\ keys[2].key = K_enter /\ keys[2].res = "sent"
    /\ BinaryPayloads = <<(<<0, 10>>)>>

\* C20: the stream example.  on_message never raises and never sends: for a
\* message that is not JSON, or whose data field is missing or is not JSON,
\* it prints the raw message and none of the event, channel and data lines.
\* on_open sends one subscribe message for /sites/<site id>/stats/devices
\* each time the connection opens.
RawOnly == {M_hello, M_five, M_null, M_nodata, M_dataint, M_databad}

Opens == {i \in 1..Len(stream.printed) : stream.printed[i].by = "on_open"}

C20_StreamHandlers ==
    /\ ~stream.raised
    /\ Len(stream.sent) = Cardinality(Opens)
    /\ \A i \in 1..Len(stream.sent) :
          stream.sent[i] = [subscribe |-> <<"/sites/", stream.site, "/stats/devices">>]
    /\ \A i \in 1..Len(stream.printed) :
          LET p == stream.printed[i]
          IN (p.by = "on_message" /\ p.message \in RawOnly) =>
                p.lines = <<[label |-> "header", text |-> ""],
                            [label |-> "raw", text |-> p.message]>>
    /\ \A i \in 1..Len(stream.printed) :
          LET p == stream.printed[i]
          IN (p.by = "on_message" /\ p.message = M_stats) =>
                p.lines = <<[label |-> "header", text |-> ""],
                            [label |-> "event", text |-> "data"],
                            [label |-> "channel", text |-> "/sites/s1/stats/devices"],
                            [label |-> "data:", text |-> ""],
                            [label |-> "dump", text |-> "{\n  \"mac\": \"aa\"\n}"]>>

C20_Witness ==
    /\ stream.pc = "closed"
    /\ stream.site = "s1"
    /\ stream.sent = <<[subscribe |-> <<"/sites/", "s1", "/stats/devices">>]>>
    /\ Len(stream.printed) = 4
    /\ stream.printed[2].message = M_databad
    /\ stream.printed[3].message = M_stats

=============================================================================
